---- MODULE Spec2Model ----
(***************************************************************************)
(* AlgoInvest&Trade: selection of shares under a budget (0/1 knapsack).    *)
(* Three optimizers (exhaustive, greedy, dynamic programming), the CSV     *)
(* readers that build the share records, and the comparison with the       *)
(* reference choices.                                                       *)
(*                                                                         *)
(* Amounts are Python floats in the source; here every amount is an exact  *)
(* fraction with a fixed denominator:                                      *)
(*   a cost or a budget c stands for c / EuroDen euros (EuroDen = 100*Sub, *)
(*     so one centime is Sub units and costs can carry a fraction of a     *)
(*     centime);                                                           *)
(*   a profit in euros p stands for p / ProfitDen euros                    *)
(*     (ProfitDen = EuroDen * 100, the exact value of cout * pct / 100).   *)
(* int(x * 100) is modelled as truncation toward zero of the exact value.  *)
(***************************************************************************)
EXTENDS Integers, Sequences, FiniteSets, TLC

VARIABLES
    pc,                         \* where the run is
    actions, budget_max,        \* the arguments of the optimizers
    \* trouver_meilleure_combinaison
    combi, meilleure_solution, nombre_total_combinaisons, bf_solution,
    \* algorithme_glouton
    actions_triees, gl_k, gl_selection, budget_restant, gl_solution,
    \* algorithme_sac_a_dos
    budget_centimes, actions_centimes, table, dp_i, dp_b, dp_selection,
    dp_solution,
    \* the readers: which program reads, the last row, what was made of it
    chemin, ligne, resultat, total_lignes,
    \* comparer_solutions
    algo, sienna, comparaison,
    \* one optimizer called twice: which one, and what each call returned
    optimiseur, retours

bfVars == <<combi, meilleure_solution, nombre_total_combinaisons, bf_solution>>
glVars == <<actions_triees, gl_k, gl_selection, budget_restant, gl_solution>>
dpVars == <<budget_centimes, actions_centimes, table, dp_i, dp_b, dp_selection,
            dp_solution>>
lectureVars == <<chemin, ligne, resultat, total_lignes>>
cmpVars == <<algo, sienna, comparaison>>
appelVars == <<optimiseur, retours>>
vars == <<pc, actions, budget_max, bfVars, glVars, dpVars, lectureVars, cmpVars, appelVars>>

\* ---------------------------------------------------------------- bounds
MaxLignes == 2     \* most rows a reader is given
MaxN == 3          \* longest list of shares given to an optimizer
MaxBudget == 6     \* largest budget, in units of 1/EuroDen euro
NegBudget == 4     \* budgets range over -NegBudget .. MaxBudget
Sub == 2           \* units per centime: costs are multiples of 1/Sub centime

Centimes == 100    \* the factor of int(x * 100)
EuroDen == Centimes * Sub
ProfitDen == EuroDen * 100

\* (cout, benefice_pct) of the shares an input list is drawn from: costs below
\* one centime (1), of one centime (2), of one centime and a half (3) and of
\* two centimes (4).
AssetKinds == {<<1, 250>>, <<2, 100>>, <<2, 150>>, <<3, 250>>, <<4, 100>>}
Budgets == (0 - NegBudget) .. MaxBudget

\* ------------------------------------------------------------ arithmetic
\* Python's int() on a float: truncation toward zero of num / den (den > 0).
TruncDiv(num, den) ==
    IF num >= 0 THEN num \div den ELSE 0 - ((0 - num) \div den)

\* int(x * 100) for x = num / den euros.
IntTimes100(num, den) == TruncDiv(num * Centimes, den)

RECURSIVE SumSeq(_)
SumSeq(s) == IF s = <<>> THEN 0 ELSE Head(s) + SumSeq(Tail(s))

Reverse(s) == [k \in 1 .. Len(s) |-> s[Len(s) + 1 - k]]

\* ----------------------------------------------------------- share records
\* A valid share as the readers build it; nom is its position in the input.
\* benefice_euros = cout * benefice_pct / 100, kept exactly over ProfitDen. The
\* key "ratio" is absent until algorithme_glouton sets it.
Absent == <<>>

Action(n, c, p) ==
    [nom |-> n, cout |-> c, benefice_pct |-> p, benefice_euros |-> c * p,
     ratio |-> Absent]

ActionLists ==
    UNION {{[k \in 1 .. n |-> Action(k, f[k][1], f[k][2])] :
               f \in [1 .. n -> AssetKinds]} : n \in 0 .. MaxN}

\* The value selected when nothing has been returned yet.
NoSolution == [actions |-> <<>>, cout_total |-> -1, benefice_total |-> -1]
EmptySelection == [actions |-> <<>>, cout_total |-> 0, benefice_total |-> 0]

\* ------------------------------------------------------ bruteforce.py
\* calculer_benefice_total: cost and profit (cout * pct / 100) of a combination.
CalculerBeneficeTotal(actions_selectionnees) ==
    [cout_total |-> SumSeq([k \in 1 .. Len(actions_selectionnees) |->
                              actions_selectionnees[k].cout]),
     benefice_total |-> SumSeq([k \in 1 .. Len(actions_selectionnees) |->
                              actions_selectionnees[k].cout
                                * actions_selectionnees[k].benefice_pct])]

\* itertools.combinations(range(lo, n + 1), k): index tuples, lexicographic.
RECURSIVE Combinations(_, _, _)
Combinations(lo, n, k) ==
    IF k = 0 THEN << <<>> >>
    ELSE IF n - lo + 1 < k THEN <<>>
    ELSE LET withLo == Combinations(lo + 1, n, k - 1)
         IN  [j \in 1 .. Len(withLo) |-> <<lo>> \o withLo[j]]
               \o Combinations(lo + 1, n, k)

\* The two nested loops: sizes 1 .. n, each size in combinations order.
RECURSIVE CombinationsFromSize(_, _)
CombinationsFromSize(taille, n) ==
    IF taille > n THEN <<>>
    ELSE Combinations(1, n, taille) \o CombinationsFromSize(taille + 1, n)

ToutesCombinaisons(n) == CombinationsFromSize(1, n)

Combinaison(acts, idx) == [k \in 1 .. Len(idx) |-> acts[idx[k]]]

\* A strict comparison in place of <=.
BfRespecteBudgetStrict(cout_total, budget) == cout_total < budget

\* The feasibility test of a combination (line 92).
BfRespecteBudget(cout_total, budget) == cout_total <= budget

\* A combination of equal profit replaces the running best.
BfEstMeilleureOuEgale(benefice_total, meilleure) ==
    benefice_total >= meilleure.benefice_total

\* The replacement test of the running best (line 95).
BfEstMeilleure(benefice_total, meilleure) ==
    benefice_total > meilleure.benefice_total

\* One iteration of the inner loop on one combination.
BfExaminer(meilleure, combinaison, budget) ==
    LET t == CalculerBeneficeTotal(combinaison)
    IN  IF BfRespecteBudget(t.cout_total, budget)
           /\ BfEstMeilleure(t.benefice_total, meilleure)
        THEN [actions |-> combinaison, cout_total |-> t.cout_total,
              benefice_total |-> t.benefice_total]
        ELSE meilleure
\* ------------------------------------------------- analyse_datasets.py
\* Totals computed from the truncated centimes of the table, divided back.
CalculerSolutionDepuisCentimes(actions_selectionnees) ==
    [actions |-> actions_selectionnees,
     cout_total |-> SumSeq([k \in 1 .. Len(actions_selectionnees) |->
         IntTimes100(actions_selectionnees[k].cout, EuroDen) * Sub]),
     benefice_total |-> SumSeq([k \in 1 .. Len(actions_selectionnees) |->
         IntTimes100(actions_selectionnees[k].benefice_euros, ProfitDen)
            * EuroDen])]

\* calculer_solution: totals from the original cout and benefice_euros fields.
CalculerSolution(actions_selectionnees) ==
    [actions |-> actions_selectionnees,
     cout_total |-> SumSeq([k \in 1 .. Len(actions_selectionnees) |->
                              actions_selectionnees[k].cout]),
     benefice_total |-> SumSeq([k \in 1 .. Len(actions_selectionnees) |->
                              actions_selectionnees[k].benefice_euros])]

\* A ratio already stored in the record is read back upside down.
CalculerRatioDepuisAncien(action) ==
    IF action.ratio = <<>> THEN <<action.benefice_pct, action.cout>>
    ELSE <<action.ratio[2], action.ratio[1]>>

\* action["ratio"] = benefice_pct / cout, as the exact fraction <<num, den>>.
CalculerRatio(action) == <<action.benefice_pct, action.cout>>

AvecRatios(acts) ==
    [k \in 1 .. Len(acts) |-> [acts[k] EXCEPT !.ratio = CalculerRatio(acts[k])]]

\* r1 > r2 for fractions with positive denominators.
RatioSup(r1, r2) == r1[1] * r2[2] > r2[1] * r1[2]

\* An unstable sort: a share goes before the shares of equal ratio already
\* placed.
RECURSIVE InsererAvantEgaux(_, _)
InsererAvantEgaux(triees, a) ==
    IF triees = <<>> THEN <<a>>
    ELSE IF ~RatioSup(Head(triees).ratio, a.ratio) THEN <<a>> \o triees
    ELSE <<Head(triees)>> \o InsererAvantEgaux(Tail(triees), a)

\* sorted(..., key=ratio, reverse=True) is stable: a share goes after every
\* share already placed whose ratio is greater than or equal to its own.
RECURSIVE Inserer(_, _)
Inserer(triees, a) ==
    IF triees = <<>> THEN <<a>>
    ELSE IF RatioSup(a.ratio, Head(triees).ratio) THEN <<a>> \o triees
    ELSE <<Head(triees)>> \o Inserer(Tail(triees), a)

RECURSIVE TrierParRatio(_, _)
TrierParRatio(triees, reste) ==
    IF reste = <<>> THEN triees
    ELSE TrierParRatio(Inserer(triees, Head(reste)), Tail(reste))

\* The test on the budget that is left alone, not on the cost of the share.
GloutonAdmetTantQuIlReste(action, restant) == restant > 0

\* The comparison the wrong way round.
GloutonAdmetInverse(action, restant) == action.cout >= restant

\* The admission test of the greedy scan (line 159).
GloutonAdmet(action, restant) == action.cout <= restant

\* --------------------------------------------- sac_a_dos_dynamique.py
\* budget_centimes = int(budget_max * 100)
BudgetEnCentimes(budget) == IntTimes100(budget, EuroDen)

CoutEnCentimes(action) == IntTimes100(action.cout, EuroDen)

BeneficeEnCentimes(action) == IntTimes100(action.benefice_euros, ProfitDen)

\* convertir_actions_en_centimes: a new list, each record copied with two
\* more keys.
ConvertirActionsEnCentimes(acts) ==
    [k \in 1 .. Len(acts) |->
        [nom |-> acts[k].nom, cout |-> acts[k].cout,
         benefice_pct |-> acts[k].benefice_pct,
         benefice_euros |-> acts[k].benefice_euros,
         ratio |-> acts[k].ratio,
         cout_centimes |-> CoutEnCentimes(acts[k]),
         benefice_centimes |-> BeneficeEnCentimes(acts[k])]]

Max(x, y) == IF x >= y THEN x ELSE y

\* table = [[0] * (budget_centimes + 1) for _ in range(n + 1)]
TableVide(n, bc) == [r \in 0 .. n |-> [c \in 0 .. bc |-> 0]]

\* A share that fits the budget level exactly is not taken.
PrendreStrict(ligne_dessus, cout, benefice, niveau) ==
    IF cout < niveau THEN ligne_dessus[niveau - cout] + benefice ELSE 0

\* An inclusion that does not fit is worth the profit of the share alone.
PrendreSansPlace(ligne_dessus, cout, benefice, niveau) ==
    IF cout <= niveau THEN ligne_dessus[niveau - cout] + benefice ELSE benefice

\* The value of "prendre" for a budget level (lines 172-175).
Prendre(ligne_dessus, cout, benefice, niveau) ==
    IF cout <= niveau THEN ligne_dessus[niveau - cout] + benefice ELSE 0

\* One pass of the outer loop of creer_table_dynamique: row r from row r - 1.
RemplirLigne(tab, r, action, bc) ==
    [tab EXCEPT ![r] =
        [c \in 0 .. bc |->
            Max(tab[r - 1][c],
                Prendre(tab[r - 1], action.cout_centimes,
                        action.benefice_centimes, c))]]

\* The loop going on at budget level 0.
BoucleContinueAZero(r, c) == r > 0 /\ c >= 0

\* The condition of the backtracking loop (line 210).
BoucleContinue(r, c) == r > 0 /\ c > 0

\* The test of the backtracking loop (line 214).
ActionPrise(tab, r, c) == tab[r][c] /= tab[r - 1][c]
\* =====================================================================
\* The three optimizers applied, one after the other, to one list of valid
\* shares and one budget.
\* =====================================================================
BfIdle ==
    /\ combi = 1
    /\ meilleure_solution = EmptySelection
    /\ nombre_total_combinaisons = 0
    /\ bf_solution = NoSolution

GlIdle ==
    /\ actions_triees = <<>>
    /\ gl_k = 1
    /\ gl_selection = <<>>
    /\ budget_restant = 0
    /\ gl_solution = NoSolution

DpIdle ==
    /\ budget_centimes = 0
    /\ actions_centimes = <<>>
    /\ table = <<>>
    /\ dp_i = 0
    /\ dp_b = 0
    /\ dp_selection = <<>>
    /\ dp_solution = NoSolution

LectureIdle ==
    /\ chemin = "aucun"
    /\ ligne = Absent
    /\ resultat = [type |-> "aucun", action |-> Absent]
    /\ total_lignes = 0

CmpIdle ==
    /\ algo = NoSolution
    /\ sienna = NoSolution
    /\ comparaison = Absent

AppelIdle ==
    /\ optimiseur = "aucun"
    /\ retours = <<>>

Init ==
    /\ pc = "bf"
    /\ actions \in ActionLists
    /\ budget_max \in Budgets
    /\ BfIdle /\ GlIdle /\ DpIdle /\ LectureIdle /\ CmpIdle /\ AppelIdle

\* ---- trouver_meilleure_combinaison(actions, budget_max)
\* One combination of the nested loops (lines 82-100).
BfExamine ==
    /\ pc = "bf"
    /\ combi <= Len(ToutesCombinaisons(Len(actions)))
    /\ nombre_total_combinaisons' = nombre_total_combinaisons + 1
    /\ meilleure_solution' =
          BfExaminer(meilleure_solution,
                     Combinaison(actions, ToutesCombinaisons(Len(actions))[combi]),
                     budget_max)
    /\ combi' = combi + 1
    /\ UNCHANGED <<lectureVars, cmpVars, appelVars>>
    /\ UNCHANGED <<pc, actions, budget_max, bf_solution, glVars, dpVars>>

\* The loops are over: return meilleure_solution (line 104).
BfReturn ==
    /\ pc = "bf"
    /\ combi > Len(ToutesCombinaisons(Len(actions)))
    /\ bf_solution' = meilleure_solution
    /\ pc' = "gl"
    /\ UNCHANGED <<lectureVars, cmpVars, appelVars>>
    /\ UNCHANGED <<actions, budget_max, combi, meilleure_solution,
                   nombre_total_combinaisons, glVars, dpVars>>

\* ---- algorithme_glouton(actions, budget_max)
\* Ratios written into the records of the input, sort, initial budget
\* (lines 148-156).
GlStart ==
    /\ pc = "gl"
    /\ actions' = AvecRatios(actions)
    /\ actions_triees' = TrierParRatio(<<>>, AvecRatios(actions))
    /\ gl_selection' = <<>>
    /\ budget_restant' = budget_max
    /\ gl_k' = 1
    /\ pc' = "gl_scan"
    /\ UNCHANGED <<lectureVars, cmpVars, appelVars>>
    /\ UNCHANGED <<budget_max, gl_solution, bfVars, dpVars>>

\* One share of the scan (lines 158-161).
GlScan ==
    /\ pc = "gl_scan"
    /\ gl_k <= Len(actions_triees)
    /\ IF GloutonAdmet(actions_triees[gl_k], budget_restant)
       THEN /\ gl_selection' = Append(gl_selection, actions_triees[gl_k])
            /\ budget_restant' = budget_restant - actions_triees[gl_k].cout
       ELSE UNCHANGED <<gl_selection, budget_restant>>
    /\ gl_k' = gl_k + 1
    /\ UNCHANGED <<lectureVars, cmpVars, appelVars>>
    /\ UNCHANGED <<pc, actions, budget_max, actions_triees, gl_solution,
                   bfVars, dpVars>>

\* return calculer_solution(actions_selectionnees) (line 163).
GlReturn ==
    /\ pc = "gl_scan"
    /\ gl_k > Len(actions_triees)
    /\ gl_solution' = CalculerSolution(gl_selection)
    /\ pc' = "dp"
    /\ UNCHANGED <<lectureVars, cmpVars, appelVars>>
    /\ UNCHANGED <<actions, budget_max, actions_triees, gl_k, gl_selection,
                   budget_restant, bfVars, dpVars>>

\* ---- algorithme_sac_a_dos(actions, budget_max)
\* Conversion to centimes and the table of zeros (lines 92-95, 150-155).
DpStart ==
    /\ pc = "dp"
    /\ budget_centimes' = BudgetEnCentimes(budget_max)
    /\ actions_centimes' = ConvertirActionsEnCentimes(actions)
    /\ table' = TableVide(Len(actions), BudgetEnCentimes(budget_max))
    /\ dp_i' = 1
    /\ pc' = "dp_fill"
    /\ UNCHANGED <<lectureVars, cmpVars, appelVars>>
    /\ UNCHANGED <<actions, budget_max, dp_b, dp_selection, dp_solution,
                   bfVars, glVars>>

\* One row of creer_table_dynamique (lines 158-178).
DpFill ==
    /\ pc = "dp_fill"
    /\ dp_i <= Len(actions_centimes)
    /\ table' = RemplirLigne(table, dp_i, actions_centimes[dp_i], budget_centimes)
    /\ dp_i' = dp_i + 1
    /\ UNCHANGED <<lectureVars, cmpVars, appelVars>>
    /\ UNCHANGED <<pc, actions, budget_max, budget_centimes, actions_centimes,
                   dp_b, dp_selection, dp_solution, bfVars, glVars>>

\* The table is returned and retrouver_actions starts (lines 202-207).
DpRetrouver ==
    /\ pc = "dp_fill"
    /\ dp_i > Len(actions_centimes)
    /\ dp_i' = Len(actions_centimes)
    /\ dp_b' = budget_centimes
    /\ dp_selection' = <<>>
    /\ pc' = "dp_back"
    /\ UNCHANGED <<lectureVars, cmpVars, appelVars>>
    /\ UNCHANGED <<actions, budget_max, budget_centimes, actions_centimes,
                   table, dp_solution, bfVars, glVars>>

\* One iteration of the backtracking loop (lines 210-220).
DpBack ==
    /\ pc = "dp_back"
    /\ BoucleContinue(dp_i, dp_b)
    /\ IF ActionPrise(table, dp_i, dp_b)
       THEN /\ dp_selection' = Append(dp_selection, actions[dp_i])
            /\ dp_b' = dp_b - actions_centimes[dp_i].cout_centimes
       ELSE UNCHANGED <<dp_selection, dp_b>>
    /\ dp_i' = dp_i - 1
    /\ UNCHANGED <<lectureVars, cmpVars, appelVars>>
    /\ UNCHANGED <<pc, actions, budget_max, budget_centimes, actions_centimes,
                   table, dp_solution, bfVars, glVars>>

\* The loop is over: reverse, then calculer_solution (lines 223, 106).
DpReturn ==
    /\ pc = "dp_back"
    /\ ~BoucleContinue(dp_i, dp_b)
    /\ dp_solution' = CalculerSolution(Reverse(dp_selection))
    /\ pc' = "done"
    /\ UNCHANGED <<lectureVars, cmpVars, appelVars>>
    /\ UNCHANGED <<actions, budget_max, budget_centimes, actions_centimes,
                   table, dp_i, dp_b, dp_selection, bfVars, glVars>>

Next ==
    \/ BfExamine \/ BfReturn
    \/ GlStart \/ GlScan \/ GlReturn
    \/ DpStart \/ DpFill \/ DpRetrouver \/ DpBack \/ DpReturn

Spec == Init /\ [][Next]_vars
\* =====================================================================
\* Properties of the optimizers
\* =====================================================================
BfDone == pc /= "bf"
GlDone == pc \in {"dp", "dp_fill", "dp_back", "done"}
DpDone == pc = "done"

\* Cost and exact profit of the shares of the input at the positions in S.
CoutDe(S) ==
    SumSeq([k \in 1 .. Len(actions) |-> IF k \in S THEN actions[k].cout ELSE 0])

ProfitDe(S) ==
    SumSeq([k \in 1 .. Len(actions) |->
               IF k \in S THEN actions[k].cout * actions[k].benefice_pct ELSE 0])

Realisable(S) == CoutDe(S) <= budget_max

Positions == SUBSET (1 .. Len(actions))

NomsDe(solution) == {solution.actions[k].nom : k \in 1 .. Len(solution.actions)}

CoutsDe(selection) == SumSeq([k \in 1 .. Len(selection) |-> selection[k].cout])

\* C1: the selection returned by the dynamic-programming optimizer costs, in
\* original unscaled costs, at most the budget.
C1_DpWithinBudget ==
    (DpDone /\ budget_max >= 0) => dp_solution.cout_total <= budget_max

\* C2: the dynamic-programming optimizer and the exhaustive optimizer return
\* the same total profit on the same input.
C2_DpProfitEqualsExhaustive ==
    (DpDone /\ budget_max >= 0) =>
        dp_solution.benefice_total = bf_solution.benefice_total

\* C3: the exhaustive optimizer returns a feasible subset of the input whose
\* total profit is the maximum over all feasible subsets, the empty one
\* included.
C3_ExhaustiveOptimal ==
    (BfDone /\ budget_max >= 0) =>
        /\ \E S \in Positions :
              /\ Realisable(S)
              /\ NomsDe(bf_solution) = S
              /\ Len(bf_solution.actions) = Cardinality(S)
              /\ bf_solution.cout_total = CoutDe(S)
              /\ bf_solution.benefice_total = ProfitDe(S)
        /\ \A S \in Positions :
              Realisable(S) => ProfitDe(S) <= bf_solution.benefice_total

\* C3 witness: two shares returned while a subset of greater profit exists
\* that the budget does not allow.
C3_Witness ==
    /\ BfDone /\ budget_max > 0
    /\ Len(bf_solution.actions) = 2
    /\ \E S \in Positions :
          ~Realisable(S) /\ ProfitDe(S) > bf_solution.benefice_total

\* C4: the greedy optimizer's total profit is at most the dynamic-programming
\* optimizer's on the same input.
C4_GreedyAtMostDp ==
    (DpDone /\ budget_max >= 0) =>
        gl_solution.benefice_total <= dp_solution.benefice_total

\* C5: the greedy and the exhaustive selections cost at most the budget, and
\* during the greedy scan the remaining budget is never negative and equals
\* the budget minus the costs admitted so far.
C5_GreedyAndExhaustiveFeasible ==
    budget_max >= 0 =>
        /\ pc = "gl_scan" =>
              /\ budget_restant >= 0
              /\ budget_restant = budget_max - CoutsDe(gl_selection)
        /\ GlDone =>
              /\ gl_solution.cout_total = CoutsDe(gl_solution.actions)
              /\ gl_solution.cout_total <= budget_max
        /\ BfDone =>
              /\ bf_solution.cout_total = CoutsDe(bf_solution.actions)
              /\ bf_solution.cout_total <= budget_max

\* C5 witness: the scan is over with a share admitted, a share refused and
\* nothing left of the budget.
C5_Witness ==
    /\ pc = "gl_scan" /\ budget_max > 0
    /\ gl_k > Len(actions_triees)
    /\ Len(gl_selection) >= 1
    /\ Len(gl_selection) < Len(actions_triees)
    /\ budget_restant = 0

\* C6: with budget 0 each of the three optimizers returns the empty
\* selection, of cost 0 and profit 0.
C6_BudgetZeroEmpty ==
    budget_max = 0 =>
        /\ BfDone => bf_solution = EmptySelection
        /\ GlDone => gl_solution = EmptySelection
        /\ DpDone => dp_solution = EmptySelection

\* C6 witness: the three optimizers have returned at budget 0 on a list
\* holding a share whose cost in centimes is 0 and whose profit is not.
C6_Witness ==
    /\ DpDone /\ budget_max = 0
    /\ \E k \in 1 .. Len(actions_centimes) :
          /\ actions_centimes[k].cout_centimes = 0
          /\ actions_centimes[k].benefice_centimes > 0

\* C7 (as stated): with a budget <= 0 no optimizer returns a selection, the
\* call ends in an error.
C7_NoSelectionAtNonPositiveBudget ==
    budget_max <= 0 =>
        /\ bf_solution = NoSolution
        /\ gl_solution = NoSolution
        /\ dp_solution = NoSolution

\* C7 (amended): with a budget <= 0 and valid shares each optimizer runs to
\* its return statement and returns the empty selection; no error is raised.
C7_EmptySelectionAtNonPositiveBudget ==
    budget_max <= 0 =>
        /\ BfDone => bf_solution = EmptySelection
        /\ GlDone => gl_solution = EmptySelection
        /\ DpDone => dp_solution = EmptySelection
        /\ pc = "gl_scan" => gl_selection = <<>>
        /\ pc = "dp_back" => dp_selection = <<>>

\* C7 witness: the three optimizers have returned on a negative budget whose
\* value in centimes is negative too, with shares in the list.
C7_Witness ==
    /\ DpDone /\ budget_max < 0 /\ budget_centimes < 0
    /\ Len(actions) >= 2
\* =====================================================================
\* The readers: rows of a CSV file turned into share records
\* =====================================================================
\* A cell of a row: a number, a number followed by "%", any other text (the
\* empty cell included), or None (csv.DictReader's value for a cell missing
\* from a short row).
Num(v) == [kind |-> "num", val |-> v]
Pct(v) == [kind |-> "pct", val |-> v]
Texte(t) == [kind |-> "texte", val |-> t]
None == [kind |-> "None", val |-> Absent]

Noms == {Texte("A"), Texte(" A"), Texte(""), Texte(" "), None}
CellulesCout == {Num(0 - 1), Num(0), Num(2), Texte("abc"), None}
CellulesBenefice == {Num(0 - 5), Num(0), Num(100), Texte("abc"), None}

\* Rows of data/actions.csv (the profit column may carry "%") and rows of the
\* datasets (name,price,profit: plain numbers).
LignesCsv ==
    [nom : Noms, cout : CellulesCout, benefice : CellulesBenefice \cup {Pct(150)}]
LignesDataset ==
    [nom : Noms, cout : CellulesCout, benefice : CellulesBenefice]

Ok(v) == [ok |-> TRUE, val |-> v]
Erreur == [ok |-> FALSE, val |-> Absent]

\* float(cell): ValueError on text that is no number, TypeError on None.
Float(cellule) == IF cellule.kind = "num" THEN Ok(cellule.val) ELSE Erreur

\* cell.replace("%", ""): AttributeError on None.
SansPourcent(cellule) ==
    IF cellule.kind = "None" THEN Erreur
    ELSE IF cellule.kind = "pct" THEN Ok(Num(cellule.val))
    ELSE Ok(cellule)

\* float(cell.replace("%", ""))
FloatSansPourcent(cellule) ==
    IF SansPourcent(cellule).ok THEN Float(SansPourcent(cellule).val) ELSE Erreur

\* str.strip() on the names of Noms.
Strip(t) == IF t = " A" THEN "A" ELSE IF t = " " THEN "" ELSE t

Cree(a) == [type |-> "action", action |-> a]
Rejet == [type |-> "None", action |-> Absent]
Exception == [type |-> "exception", action |-> Absent]

\* The validity test of creer_action_depuis_ligne (optimized.py line 43,
\* sac_a_dos_dynamique.py line 55).
CoutOuBeneficeInvalide(cout, benefice_pct) == cout <= 0 \/ benefice_pct <= 0

\* bruteforce.py, the body of the loop of lire_fichier_actions: no test at all.
BfCreerAction(l) ==
    IF ~Float(l.cout).ok \/ ~FloatSansPourcent(l.benefice).ok THEN Exception
    ELSE Cree([nom |-> l.nom, cout |-> Float(l.cout).val,
               benefice_pct |-> FloatSansPourcent(l.benefice).val,
               benefice_euros |-> Absent, ratio |-> Absent])

\* optimized.py, creer_action_depuis_ligne.
OptCreerActionDepuisLigne(l) ==
    IF ~Float(l.cout).ok \/ ~FloatSansPourcent(l.benefice).ok THEN Exception
    ELSE LET cout == Float(l.cout).val
             benefice_pct == FloatSansPourcent(l.benefice).val
         IN  IF CoutOuBeneficeInvalide(cout, benefice_pct) THEN Rejet
             ELSE Cree([nom |-> l.nom, cout |-> cout,
                        benefice_pct |-> benefice_pct,
                        benefice_euros |-> Absent,
                        ratio |-> <<benefice_pct, cout>>])

\* sac_a_dos_dynamique.py, creer_action_depuis_ligne.
SacCreerActionDepuisLigne(l) ==
    IF ~Float(l.cout).ok \/ ~FloatSansPourcent(l.benefice).ok THEN Exception
    ELSE LET cout == Float(l.cout).val
             benefice_pct == FloatSansPourcent(l.benefice).val
         IN  IF CoutOuBeneficeInvalide(cout, benefice_pct) THEN Rejet
             ELSE Cree([nom |-> l.nom, cout |-> cout,
                        benefice_pct |-> benefice_pct,
                        benefice_euros |-> cout * benefice_pct,
                        ratio |-> Absent])

\* analyse_datasets.py, creer_action_depuis_dataset: everything in a try
\* whose bare except returns None.
CreerActionDepuisDataset(l) ==
    IF l.nom.kind = "None" \/ ~Float(l.cout).ok \/ ~Float(l.benefice).ok
    THEN Rejet
    ELSE LET nom == Strip(l.nom.val)
             prix == Float(l.cout).val
             profit_pct == Float(l.benefice).val
         IN  IF nom = "" \/ prix <= 0 \/ profit_pct <= 0 THEN Rejet
             ELSE Cree([nom |-> Texte(nom), cout |-> prix,
                        benefice_pct |-> profit_pct,
                        benefice_euros |-> prix * profit_pct,
                        ratio |-> Absent])

Chemins == {"bruteforce", "optimized", "sac_a_dos_dynamique", "analyse_datasets"}

\* budget_max=500 of every main, in units of 1/EuroDen euro.
BudgetParDefaut == 500 * EuroDen

InitLecture ==
    /\ pc = "lecture"
    /\ chemin \in Chemins
    /\ actions = <<>>
    /\ budget_max = BudgetParDefaut
    /\ ligne = Absent
    /\ resultat = [type |-> "aucun", action |-> Absent]
    /\ total_lignes = 0
    /\ BfIdle /\ GlIdle /\ DpIdle /\ CmpIdle /\ AppelIdle

\* One pass of the loop of a reader on the row l, res being what the
\* construction made of it: an exception leaves the reader and the program.
TraiterLigne(l, res) ==
    /\ ligne' = l
    /\ resultat' = res
    /\ total_lignes' = total_lignes + 1
    /\ actions' = IF res.type = "action" THEN Append(actions, res.action)
                  ELSE actions
    /\ pc' = IF res.type = "exception" THEN "exception" ELSE pc
    /\ UNCHANGED <<chemin, budget_max, bfVars, glVars, dpVars, cmpVars, appelVars>>

\* bruteforce.lire_fichier_actions, one row (lines 23-34).
BfLireLigne ==
    /\ pc = "lecture" /\ chemin = "bruteforce" /\ total_lignes < MaxLignes
    /\ \E l \in LignesCsv : TraiterLigne(l, BfCreerAction(l))

\* optimized.lire_fichier_actions, one row (lines 20-23).
OptLireLigne ==
    /\ pc = "lecture" /\ chemin = "optimized" /\ total_lignes < MaxLignes
    /\ \E l \in LignesCsv : TraiterLigne(l, OptCreerActionDepuisLigne(l))

\* sac_a_dos_dynamique.lire_fichier_actions, one row (lines 32-35).
SacLireLigne ==
    /\ pc = "lecture" /\ chemin = "sac_a_dos_dynamique"
    /\ total_lignes < MaxLignes
    /\ \E l \in LignesCsv : TraiterLigne(l, SacCreerActionDepuisLigne(l))

\* analyse_datasets.lire_dataset, one row (lines 54-74).
DatasetLireLigne ==
    /\ pc = "lecture" /\ chemin = "analyse_datasets"
    /\ total_lignes < MaxLignes
    /\ \E l \in LignesDataset : TraiterLigne(l, CreerActionDepuisDataset(l))

\* End of the file: the reader returns its list. lire_dataset first prints
\* lignes_valides / total_lignes, a division by zero on a file without rows
\* (line 80).
FinLecture ==
    /\ pc = "lecture"
    /\ pc' = IF chemin = "analyse_datasets" /\ total_lignes = 0
             THEN "exception" ELSE "charge"
    /\ UNCHANGED <<actions, budget_max, bfVars, glVars, dpVars, lectureVars,
                   cmpVars, appelVars>>

\* main hands the list to its optimizer; analyser_dataset returns before
\* that when the list is empty (lines 402-404).
AppelOptimiseur ==
    /\ pc = "charge"
    /\ pc' = IF chemin = "analyse_datasets" /\ Len(actions) = 0
             THEN "fin" ELSE "optimiseur"
    /\ UNCHANGED <<actions, budget_max, bfVars, glVars, dpVars, lectureVars,
                   cmpVars, appelVars>>

NextLecture ==
    \/ BfLireLigne \/ OptLireLigne \/ SacLireLigne \/ DatasetLireLigne
    \/ FinLecture \/ AppelOptimiseur

SpecLecture == InitLecture /\ [][NextLecture]_vars

\* What the construction of a share must reject: a name that is missing,
\* empty or blank, a number that cannot be parsed, a cost or a profit <= 0.
NomManquant(l) == l.nom.kind = "None" \/ l.nom.val \in {"", " "}
NonNumerique(cellule) == cellule.kind \in {"texte", "None"}
NonPositif(cellule) == cellule.kind \in {"num", "pct"} /\ cellule.val <= 0
DoitRejeter(l) ==
    \/ NomManquant(l)
    \/ NonNumerique(l.cout) \/ NonNumerique(l.benefice)
    \/ NonPositif(l.cout) \/ NonPositif(l.benefice)

\* C8: the construction of a share from a row returns a share or a rejection,
\* no exception leaves it, it rejects exactly the rows that must be
\* rejected, and after a rejection the reader goes on with the next row.
C8_ConstructionRejectsExactlyInvalid ==
    (chemin /= "bruteforce" /\ resultat.type /= "aucun") =>
        /\ resultat.type \in {"action", "None"}
        /\ resultat.type = "None" <=> DoitRejeter(ligne)
        /\ pc /= "exception"

\* C9: on every reading path each share handed to an optimizer has a cost
\* > 0 and a profit percentage > 0.
C9_OnlyValidSharesReachOptimizer ==
    pc = "optimiseur" =>
        \A k \in 1 .. Len(actions) :
            actions[k].cout > 0 /\ actions[k].benefice_pct > 0
\* =====================================================================
\* comparer_solutions: the algorithm's solution against Sienna's choices
\* =====================================================================
\* Amounts of this part stand for thousandths of a euro.
CmpDen == 10 * Centimes

\* The tolerance 0.01 of the verdict (lines 370 and 373).
Epsilon == CmpDen \div 100

\* obtenir_choix_sienna_dataset1: 498.76 euros spent, 196.61 euros of profit.
ChoixSiennaDataset1 ==
    [actions |-> <<"Share-GRUT">>, cout_total |-> 498760,
     benefice_total |-> 196610]

\* obtenir_choix_sienna_dataset2: 489.24 euros spent, 193.78 euros of profit.
ChoixSiennaDataset2 ==
    [actions |-> <<"Share-ECAQ", "Share-IXCI", "Share-FWBE", "Share-ZOFA",
                   "Share-PLLK", "Share-YFVZ", "Share-ANFX", "Share-PATS",
                   "Share-NDKR", "Share-ALIY", "Share-JWGF", "Share-JGTW",
                   "Share-FAPS", "Share-VCAX", "Share-LFXB", "Share-DWSK",
                   "Share-XQII", "Share-ROOM">>,
     cout_total |-> 489240, benefice_total |-> 193780]

ChoixSienna == {ChoixSiennaDataset1, ChoixSiennaDataset2}

\* Solutions of the algorithm: the empty one, and solutions of one or two
\* shares whose profit lies around each of Sienna's, on both sides of the
\* tolerance and on it.
Ecarts == {0 - 2 * Epsilon, 0 - Epsilon - 1, 0 - Epsilon, 1 - Epsilon, 0,
           Epsilon - 1, Epsilon, Epsilon + 1, 2 * Epsilon}

SolutionsAlgo ==
    {EmptySelection} \cup
    [actions : {<<"Share-GRUT">>, <<"Share-ECAQ", "Share-IXCI">>},
     cout_total : {498760, 499990},
     benefice_total : {r.benefice_total + e : r \in ChoixSienna, e \in Ecarts}]

\* The test of the first branch of the verdict with >= in place of >.
AlgoMeilleurOuEgal(diff_benefice) == diff_benefice >= Epsilon

\* The tests of the verdict (lines 370 and 373).
AlgoMeilleur(diff_benefice) == diff_benefice > Epsilon
SiennaMeilleure(diff_benefice) == diff_benefice < 0 - Epsilon

\* The verdict (lines 370-377); the percentage printed with it divides by
\* Sienna's profit.
Verdict(diff_benefice, benefice_sienna) ==
    IF AlgoMeilleur(diff_benefice)
    THEN IF benefice_sienna = 0 THEN "ZeroDivisionError"
         ELSE "ALGORITHME MEILLEUR"
    ELSE IF SiennaMeilleure(diff_benefice)
    THEN IF benefice_sienna = 0 THEN "ZeroDivisionError"
         ELSE "SIENNA MEILLEURE"
    ELSE "EQUIVALENTES"

\* comparer_solutions: the differences printed and the verdict.
ComparerSolutions(a, s) ==
    [diff_benefice |-> a.benefice_total - s.benefice_total,
     diff_cout |-> a.cout_total - s.cout_total,
     diff_nb |-> Len(a.actions) - Len(s.actions),
     rentabilite |-> a.cout_total > 0 /\ s.cout_total > 0,
     verdict |-> Verdict(a.benefice_total - s.benefice_total, s.benefice_total)]

InitComparer ==
    /\ pc = "comparer"
    /\ algo \in SolutionsAlgo
    /\ sienna \in ChoixSienna
    /\ comparaison = Absent
    /\ actions = <<>>
    /\ budget_max = BudgetParDefaut
    /\ BfIdle /\ GlIdle /\ DpIdle /\ LectureIdle /\ AppelIdle

\* comparer_solutions(solution, choix_sienna, nom) (line 424).
Comparer ==
    /\ pc = "comparer"
    /\ comparaison' = ComparerSolutions(algo, sienna)
    /\ pc' = "compare"
    /\ UNCHANGED <<actions, budget_max, algo, sienna, bfVars, glVars, dpVars,
                   lectureVars, appelVars>>

NextComparer == Comparer

SpecComparer == InitComparer /\ [][NextComparer]_vars

\* C10: the verdict is "algorithm better" iff the algorithm's profit minus
\* Sienna's is > 0.01, "Sienna better" iff it is < -0.01, "equivalent"
\* otherwise, whatever the costs and the numbers of shares; 196.62 against
\* 196.61 is not "algorithm better".
C10_VerdictByProfitDifference ==
    pc = "compare" =>
        LET d == algo.benefice_total - sienna.benefice_total
        IN  /\ comparaison.verdict = "ALGORITHME MEILLEUR" <=> d > Epsilon
            /\ comparaison.verdict = "SIENNA MEILLEURE" <=> d < 0 - Epsilon
            /\ comparaison.verdict = "EQUIVALENTES" <=>
                  (d <= Epsilon /\ d >= 0 - Epsilon)
            /\ (algo.benefice_total = 196620 /\ sienna.benefice_total = 196610)
                  => comparaison.verdict /= "ALGORITHME MEILLEUR"

\* C10 witness: 196.62 euros against Sienna's 196.61 has been compared, at a
\* different cost and number of shares, and found equivalent.
C10_Witness ==
    /\ pc = "compare"
    /\ algo.benefice_total = 196620 /\ sienna.benefice_total = 196610
    /\ comparaison.diff_cout /= 0 /\ comparaison.diff_nb /= 0
    /\ comparaison.verdict = "EQUIVALENTES"

\* =====================================================================
\* Further properties of the optimizers
\* =====================================================================
\* C11: no step of an optimizer changes its input: the list keeps its length
\* and order and every record its keys and values.
C11_InputUnchanged == [][actions' = actions]_vars

\* =====================================================================
\* Each optimizer as one call, and one optimizer called twice in a row on
\* the same list object and the same budget.
\* =====================================================================
\* bruteforce.py, the nested loops over all the combinations (lines 82-100).
RECURSIVE BfParcourir(_, _, _, _)
BfParcourir(meilleure, combinaisons, acts, budget) ==
    IF combinaisons = <<>> THEN meilleure
    ELSE BfParcourir(BfExaminer(meilleure,
                                Combinaison(acts, Head(combinaisons)), budget),
                     Tail(combinaisons), acts, budget)

TrouverMeilleureCombinaison(acts, budget) ==
    BfParcourir(EmptySelection, ToutesCombinaisons(Len(acts)), acts, budget)

\* analyse_datasets.py, the scan of the sorted list (lines 155-161).
RECURSIVE GloutonParcourir(_, _, _)
GloutonParcourir(selection, restant, triees) ==
    IF triees = <<>> THEN selection
    ELSE IF GloutonAdmet(Head(triees), restant)
         THEN GloutonParcourir(Append(selection, Head(triees)),
                               restant - Head(triees).cout, Tail(triees))
         ELSE GloutonParcourir(selection, restant, Tail(triees))

AlgorithmeGlouton(acts, budget) ==
    CalculerSolution(
        GloutonParcourir(<<>>, budget, TrierParRatio(<<>>, AvecRatios(acts))))

\* sac_a_dos_dynamique.py, creer_table_dynamique: rows r .. n filled in turn.
RECURSIVE RemplirDepuis(_, _, _, _)
RemplirDepuis(tab, r, acts_c, bc) ==
    IF r > Len(acts_c) THEN tab
    ELSE RemplirDepuis(RemplirLigne(tab, r, acts_c[r], bc), r + 1, acts_c, bc)

CreerTableDynamique(acts_c, bc) ==
    RemplirDepuis(TableVide(Len(acts_c), bc), 1, acts_c, bc)

\* sac_a_dos_dynamique.py, retrouver_actions: the loop from (i, b), then the
\* reversal.
RECURSIVE Remonter(_, _, _, _, _, _)
Remonter(acts, acts_c, tab, i, b, selection) ==
    IF ~BoucleContinue(i, b) THEN Reverse(selection)
    ELSE IF ActionPrise(tab, i, b)
         THEN Remonter(acts, acts_c, tab, i - 1, b - acts_c[i].cout_centimes,
                       Append(selection, acts[i]))
         ELSE Remonter(acts, acts_c, tab, i - 1, b, selection)

RetrouverActions(acts, acts_c, tab, bc) ==
    Remonter(acts, acts_c, tab, Len(acts_c), bc, <<>>)

AlgorithmeSacADos(acts, budget) ==
    LET bc == BudgetEnCentimes(budget)
        acts_c == ConvertirActionsEnCentimes(acts)
    IN  CalculerSolution(
            RetrouverActions(acts, acts_c, CreerTableDynamique(acts_c, bc), bc))

Optimiseurs == {"bruteforce", "glouton", "dynamique"}

InitDeuxAppels ==
    /\ pc = "appels"
    /\ optimiseur \in Optimiseurs
    /\ actions \in ActionLists
    /\ budget_max \in Budgets
    /\ retours = <<>>
    /\ BfIdle /\ GlIdle /\ DpIdle /\ LectureIdle /\ CmpIdle

\* trouver_meilleure_combinaison(actions, budget_max), one call.
AppelBruteforce ==
    /\ pc = "appels"
    /\ optimiseur = "bruteforce"
    /\ Len(retours) < 2
    /\ retours' = Append(retours, TrouverMeilleureCombinaison(actions, budget_max))
    /\ UNCHANGED <<pc, actions, budget_max, optimiseur, bfVars, glVars, dpVars,
                   lectureVars, cmpVars>>

\* algorithme_glouton(actions, budget_max), one call: the records of the list
\* keep the ratio the call wrote into them.
AppelGlouton ==
    /\ pc = "appels"
    /\ optimiseur = "glouton"
    /\ Len(retours) < 2
    /\ retours' = Append(retours, AlgorithmeGlouton(actions, budget_max))
    /\ actions' = AvecRatios(actions)
    /\ UNCHANGED <<pc, budget_max, optimiseur, bfVars, glVars, dpVars,
                   lectureVars, cmpVars>>

\* algorithme_sac_a_dos(actions, budget_max), one call.
AppelDynamique ==
    /\ pc = "appels"
    /\ optimiseur = "dynamique"
    /\ Len(retours) < 2
    /\ retours' = Append(retours, AlgorithmeSacADos(actions, budget_max))
    /\ UNCHANGED <<pc, actions, budget_max, optimiseur, bfVars, glVars, dpVars,
                   lectureVars, cmpVars>>

NextDeuxAppels == AppelBruteforce \/ AppelGlouton \/ AppelDynamique

SpecDeuxAppels == InitDeuxAppels /\ [][NextDeuxAppels]_vars

\* C12: an optimizer called twice in a row on the same list and the same
\* budget returns both times the same set of shares, the same total cost and
\* the same total profit.
C12_TwoCallsAgree ==
    Len(retours) = 2 =>
        /\ NomsDe(retours[1]) = NomsDe(retours[2])
        /\ retours[1].cout_total = retours[2].cout_total
        /\ retours[1].benefice_total = retours[2].benefice_total

\* The second greedy call ran on records that already carried a ratio, the
\* shares have different ratios and the budget does not admit them all.
C12_Witness ==
    /\ Len(retours) = 2
    /\ optimiseur = "glouton"
    /\ \A k \in 1 .. Len(actions) : actions[k].ratio /= <<>>
    /\ \E j, k \in 1 .. Len(actions) : RatioSup(actions[j].ratio, actions[k].ratio)
    /\ Len(retours[2].actions) > 0
    /\ Len(retours[2].actions) < Len(actions)

\* =====================================================================
\* The dynamic-programming optimizer: totals, table, reconstruction
\* =====================================================================

\* C13: the totals the dynamic-programming optimizer reports are the sums of
\* the original cout and benefice_euros of the shares of the subset it
\* reconstructed, not sums of the truncated centimes of the table.
C13_DpTotalsFromOriginalFields ==
    DpDone =>
        /\ dp_solution.actions = Reverse(dp_selection)
        /\ \E S \in Positions :
              /\ NomsDe(dp_solution) = S
              /\ Len(dp_solution.actions) = Cardinality(S)
              /\ dp_solution.cout_total = CoutDe(S)
              /\ dp_solution.benefice_total =
                    SumSeq([k \in 1 .. Len(actions) |->
                               IF k \in S THEN actions[k].benefice_euros ELSE 0])

\* A returned selection whose cost and whose profit both differ from what
\* the centimes of its shares add up to.
C13_Witness ==
    /\ DpDone
    /\ dp_solution.cout_total /=
          SumSeq([k \in 1 .. Len(dp_solution.actions) |->
                     CoutEnCentimes(dp_solution.actions[k]) * Sub])
    /\ dp_solution.benefice_total /=
          SumSeq([k \in 1 .. Len(dp_solution.actions) |->
                     BeneficeEnCentimes(dp_solution.actions[k]) * EuroDen])

\* =====================================================================
\* The greedy optimizer: order of the scan and admission
\* =====================================================================
\* The shares of a scan order admitted one after the other from a remaining
\* budget: a share is admitted iff its cost is at most what remains.
RECURSIVE Admises(_, _)
Admises(ordre, restant) ==
    IF ordre = <<>> THEN <<>>
    ELSE IF Head(ordre).cout <= restant
         THEN <<Head(ordre)>> \o Admises(Tail(ordre), restant - Head(ordre).cout)
         ELSE Admises(Tail(ordre), restant)

\* The scan order is the input sorted by ratio descending, shares of equal
\* ratio in input order (nom is the input position).
OrdreDuScan(ordre) ==
    /\ Len(ordre) = Len(actions)
    /\ {ordre[k].nom : k \in 1 .. Len(ordre)} = 1 .. Len(actions)
    /\ \A k \in 1 .. Len(ordre) :
          /\ ordre[k].cout = actions[ordre[k].nom].cout
          /\ ordre[k].benefice_pct = actions[ordre[k].nom].benefice_pct
          /\ ordre[k].ratio = <<ordre[k].benefice_pct, ordre[k].cout>>
    /\ \A j, k \in 1 .. Len(ordre) :
          j < k =>
             ordre[j].benefice_pct * ordre[k].cout
                 >= ordre[k].benefice_pct * ordre[j].cout
    /\ \A j, k \in 1 .. Len(ordre) :
          (j < k /\ ordre[j].benefice_pct * ordre[k].cout
                       = ordre[k].benefice_pct * ordre[j].cout)
             => ordre[j].nom < ordre[k].nom

\* C14: the greedy optimizer scans the shares by ratio descending, equal
\* ratios in input order, admits a share iff its cost is at most the budget
\* that remains, which then decreases by that cost, and returns exactly the
\* admitted shares in scan order.
C14_GreedyScanOrderAndAdmission ==
    /\ pc = "gl_scan" =>
          /\ OrdreDuScan(actions_triees)
          /\ gl_selection = Admises(SubSeq(actions_triees, 1, gl_k - 1), budget_max)
          /\ budget_restant = budget_max - CoutsDe(gl_selection)
    /\ GlDone =>
          /\ OrdreDuScan(actions_triees)
          /\ gl_solution.actions = Admises(actions_triees, budget_max)

\* The sort moved a share behind a later one, two shares of equal ratio were
\* scanned in input order with only the first admitted, and a share was
\* admitted after another had been refused.
C14_Witness ==
    /\ GlDone
    /\ \E j, k \in 1 .. Len(actions_triees) :
          j < k /\ actions_triees[j].nom > actions_triees[k].nom
    /\ \E j, k \in 1 .. Len(actions_triees) :
          /\ j < k
          /\ actions_triees[j].benefice_pct * actions_triees[k].cout
                = actions_triees[k].benefice_pct * actions_triees[j].cout
          /\ actions_triees[j].nom \in NomsDe(gl_solution)
          /\ actions_triees[k].nom \notin NomsDe(gl_solution)
    /\ \E j, k \in 1 .. Len(actions_triees) :
          /\ j < k
          /\ actions_triees[j].nom \notin NomsDe(gl_solution)
          /\ actions_triees[k].nom \in NomsDe(gl_solution)

\* =====================================================================
\* The exhaustive optimizer: enumeration, count and ties
\* =====================================================================
Indices(idx) == {idx[k] : k \in 1 .. Len(idx)}

Maximum(V) == CHOOSE x \in V : \A y \in V : y <= x

\* Every non-empty subset of 1 .. n once, as an increasing tuple, the sizes
\* never decreasing along the enumeration.
EnumerationComplete(n) ==
    LET T == ToutesCombinaisons(n)
    IN  /\ Len(T) = 2 ^ n - 1
        /\ {Indices(T[j]) : j \in 1 .. Len(T)} = (SUBSET (1 .. n)) \ {{}}
        /\ \A j \in 1 .. Len(T) :
              /\ Len(T[j]) = Cardinality(Indices(T[j]))
              /\ \A k \in 1 .. Len(T[j]) - 1 : T[j][k] < T[j][k + 1]
        /\ \A j \in 1 .. Len(T) - 1 : Len(T[j]) <= Len(T[j + 1])

\* The best of the first m combinations: the first, in enumeration order, of
\* the feasible ones of greatest profit above the initial 0.
PremiereMeilleure(m) ==
    LET T == ToutesCombinaisons(Len(actions))
        candidates == {j \in 1 .. m : /\ Realisable(Indices(T[j]))
                                      /\ ProfitDe(Indices(T[j])) > 0}
    IN  IF candidates = {} THEN EmptySelection
        ELSE LET plus_grand ==
                     Maximum({ProfitDe(Indices(T[c])) : c \in candidates})
                 premiers == {c \in candidates :
                                 ProfitDe(Indices(T[c])) = plus_grand}
                 j == CHOOSE c \in premiers : \A d \in premiers : c <= d
             IN  [actions |-> Combinaison(actions, T[j]),
                  cout_total |-> CoutDe(Indices(T[j])),
                  benefice_total |-> plus_grand]

\* C15: the exhaustive optimizer examines every non-empty subset once, by
\* increasing size, counts 2^N - 1 of them whatever the budget, and replaces
\* its running best only by a feasible subset of strictly greater profit, so
\* that it returns the first enumerated of the optima of equal profit.
C15_ExhaustiveEnumeration ==
    /\ (pc = "bf" /\ combi = 1) => EnumerationComplete(Len(actions))
    /\ pc = "bf" =>
          /\ nombre_total_combinaisons = combi - 1
          /\ meilleure_solution = PremiereMeilleure(combi - 1)
    /\ BfDone => nombre_total_combinaisons = 2 ^ Len(actions) - 1
    /\ pc = "gl" => bf_solution = PremiereMeilleure(2 ^ Len(actions) - 1)

\* Three shares, seven subsets counted, some of them infeasible, and a later
\* feasible subset with the profit of the returned one.
C15_Witness ==
    /\ pc = "gl"
    /\ Len(actions) = 3
    /\ nombre_total_combinaisons = 7
    /\ \E S \in Positions : ~Realisable(S)
    /\ \E j, k \in 1 .. 7 :
          LET T == ToutesCombinaisons(3)
          IN  /\ j < k
              /\ bf_solution.actions = Combinaison(actions, T[j])
              /\ Realisable(Indices(T[k]))
              /\ ProfitDe(Indices(T[k])) = bf_solution.benefice_total

\* =====================================================================
\* The dynamic-programming optimizer: the table and the backtracking
\* =====================================================================
CoutCentimesDe(S) ==
    SumSeq([k \in 1 .. Len(actions_centimes) |->
               IF k \in S THEN actions_centimes[k].cout_centimes ELSE 0])

BeneficeCentimesDe(S) ==
    SumSeq([k \in 1 .. Len(actions_centimes) |->
               IF k \in S THEN actions_centimes[k].benefice_centimes ELSE 0])

\* The greatest profit in centimes of a subset of the first i shares whose
\* costs in centimes add up to at most b.
OptimumCentimes(i, b) ==
    Maximum({BeneficeCentimesDe(S) :
                S \in {X \in SUBSET (1 .. i) : CoutCentimesDe(X) <= b}})

\* C16: every cell T[i][b] of a filled row of the table, and of the whole
\* table once creer_table_dynamique has returned, is the greatest sum of
\* profits in centimes over the subsets of the first i shares whose costs in
\* centimes add up to at most b; the 0 given to an inclusion that does not fit
\* never shows in a cell.
C16_TableIsKnapsackOptimum ==
    /\ pc = "dp_fill" =>
          \A i \in 0 .. dp_i - 1 : \A b \in 0 .. budget_centimes :
             table[i][b] = OptimumCentimes(i, b)
    /\ pc \in {"dp_back", "done"} =>
          \A i \in 0 .. Len(actions_centimes) : \A b \in 0 .. budget_centimes :
             table[i][b] = OptimumCentimes(i, b)

\* A filled table with a cell where the share did not fit while the row above
\* was already worth something, and a cell that taking the share improved.
C16_Witness ==
    /\ pc = "dp_back"
    /\ \E i \in 1 .. Len(actions_centimes) : \E b \in 0 .. budget_centimes :
          /\ actions_centimes[i].cout_centimes > b
          /\ table[i - 1][b] > 0
    /\ \E i \in 1 .. Len(actions_centimes) : \E b \in 0 .. budget_centimes :
          /\ table[i][b] > table[i - 1][b]
          /\ table[i - 1][b] > 0

\* C17: the subset retrouver_actions returns realises the optimum of the
\* table: its profits in centimes add up to T[N][B], its costs in centimes to
\* at most B, and it holds each share of the input at most once, in input
\* order, shares of cost 0 in centimes included.
C17_ReconstructionRealisesOptimum ==
    (DpDone /\ budget_max >= 0) =>
        LET choisies == dp_solution.actions
            S == NomsDe(dp_solution)
        IN  /\ BeneficeCentimesDe(S) = table[Len(actions_centimes)][budget_centimes]
            /\ CoutCentimesDe(S) <= budget_centimes
            /\ Len(choisies) = Cardinality(S)
            /\ \A k \in 1 .. Len(choisies) - 1 :
                  choisies[k].nom < choisies[k + 1].nom

\* C18: in the backtracking loop the column b stays within 0 .. B and the row
\* i within 0 .. N, no subtraction of a cost makes b negative, and the loop
\* ends after at most N iterations.
C18_BacktrackingStaysInTable ==
    (pc \in {"dp_back", "done"} /\ budget_max >= 0) =>
        /\ dp_i \in 0 .. Len(actions_centimes)
        /\ dp_b \in 0 .. budget_centimes
        /\ Len(dp_selection) <= Len(actions_centimes) - dp_i
        /\ (pc = "dp_back" /\ BoucleContinue(dp_i, dp_b)
              /\ ActionPrise(table, dp_i, dp_b))
              => actions_centimes[dp_i].cout_centimes <= dp_b

\* Every iteration of the loop takes i down by one.
C18_EachIterationDecrementsRow ==
    [][(pc = "dp_back" /\ pc' = "dp_back") => dp_i' = dp_i - 1]_vars

\* The loop has run down to row 0 with budget left, after subtracting the
\* cost of a share from b.
C18_Witness ==
    /\ pc = "done"
    /\ Len(actions_centimes) = MaxN
    /\ dp_i = 0
    /\ dp_b > 0
    /\ dp_b < budget_centimes

\* =====================================================================
\* analyse_datasets.py, algorithme_dynamique: conversion, table and
\* backtracking, all in one function.
\* =====================================================================
\* budget_centimes = int(budget_max * 100)
AdBudgetCentimes(budget) == TruncDiv(budget * 100, EuroDen)

\* {**action, "cout_centimes": ..., "benefice_centimes": ...}
AdActionsCentimes(acts) ==
    [k \in 1 .. Len(acts) |->
        [nom |-> acts[k].nom, cout |-> acts[k].cout,
         benefice_pct |-> acts[k].benefice_pct,
         benefice_euros |-> acts[k].benefice_euros,
         ratio |-> acts[k].ratio,
         cout_centimes |-> TruncDiv(acts[k].cout * 100, EuroDen),
         benefice_centimes |-> TruncDiv(acts[k].benefice_euros * 100, ProfitDen)]]

\* The body of the inner loop for one budget level b of row i.
AdCellule(tab, i, b, cout, benefice) ==
    LET ne_pas_prendre == tab[i - 1][b]
        prendre == IF cout <= b THEN tab[i - 1][b - cout] + benefice ELSE 0
    IN  IF prendre > ne_pas_prendre THEN prendre ELSE ne_pas_prendre

\* The outer loop from row i on.
RECURSIVE AdRemplir(_, _, _, _)
AdRemplir(tab, i, acts_c, bc) ==
    IF i > Len(acts_c) THEN tab
    ELSE AdRemplir(
            [tab EXCEPT ![i] =
                [b \in 0 .. bc |->
                    AdCellule(tab, i, b, acts_c[i].cout_centimes,
                              acts_c[i].benefice_centimes)]],
            i + 1, acts_c, bc)

AdTable(acts, budget) ==
    LET bc == AdBudgetCentimes(budget)
        acts_c == AdActionsCentimes(acts)
    IN  AdRemplir([i \in 0 .. Len(acts_c) |-> [b \in 0 .. bc |-> 0]],
                  1, acts_c, bc)

\* The loop going on at budget level 0.
AdBoucleAZero(i, b) == i > 0 /\ b >= 0

\* while i > 0 and b > 0
AdBoucle(i, b) == i > 0 /\ b > 0

\* The backtracking loop from (i, b).
RECURSIVE AdBacktracking(_, _, _, _, _, _)
AdBacktracking(acts, acts_c, tab, i, b, actions_selectionnees) ==
    IF ~AdBoucle(i, b) THEN actions_selectionnees
    ELSE IF tab[i][b] /= tab[i - 1][b]
         THEN AdBacktracking(acts, acts_c, tab, i - 1,
                             b - acts_c[i].cout_centimes,
                             Append(actions_selectionnees, acts[i]))
         ELSE AdBacktracking(acts, acts_c, tab, i - 1, b, actions_selectionnees)

AlgorithmeDynamique(acts, budget) ==
    LET bc == AdBudgetCentimes(budget)
        acts_c == AdActionsCentimes(acts)
    IN  CalculerSolution(
            Reverse(AdBacktracking(acts, acts_c, AdTable(acts, budget),
                                   Len(acts_c), bc, <<>>)))

\* C19: on every list and budget, algorithme_dynamique of analyse_datasets.py
\* builds the table that algorithme_sac_a_dos builds and returns the same
\* shares in the same order with the same totals.
C19_TwoDpImplementationsAgree ==
    DpDone =>
        /\ table = AdTable(actions, budget_max)
        /\ dp_solution = AlgorithmeDynamique(actions, budget_max)

\* Both return two shares or more out of three, having left one out, from a
\* table whose last cell is above the profit in centimes of what they return.
C19_Witness ==
    /\ DpDone
    /\ Len(actions) = MaxN
    /\ Len(dp_solution.actions) >= 2
    /\ Len(dp_solution.actions) < Len(actions)
    /\ dp_solution = AlgorithmeDynamique(actions, budget_max)
    /\ table[Len(actions)][budget_centimes] > BeneficeCentimesDe(NomsDe(dp_solution))
====
